---- MODULE Spec2Model ----
(***************************************************************************)
(* A model of ai_agents.agent: the registry of decorated callables          *)
(* (AgentCollection), validated dispatch (call_with_params) and the batch   *)
(* dispatcher (invoke_fn_async / invoke_fn) running on an asyncio loop, and  *)
(* the tool schemas (input_schema, the adapters' tools()).                  *)
(***************************************************************************)
EXTENDS Integers, Sequences, FiniteSets, TLC

\* Longest batch handed to invoke_fn_async / invoke_fn.
MaxBatch == 2

----------------------------------------------------------------------------
(* JSON values and raw parameters (RawParameters = Union[str, dict])        *)

JStr(s) == [type |-> "string", v |-> s]
JInt(s) == [type |-> "integer", v |-> s]

EmptyDict == [k \in {} |-> JStr("")]
DictOf(val) == [k \in {"name"} |-> val]

\* The structured payloads a provider hands over.
Dicts == {EmptyDict, DictOf(JStr("Bob")), DictOf(JInt("7"))}

\* The JSON-encoded payloads a provider hands over (the last is malformed).
Texts == {"{\"name\": \"Alice\"}", "{\"name\": "}

RawDict(d) == [form |-> "dict", text |-> "", dict |-> d]
RawStr(s) == [form |-> "str", text |-> s, dict |-> EmptyDict]

RawParameters == {RawDict(d) : d \in Dicts} \cup {RawStr(s) : s \in Texts}

\* JSON decoding done by model_validate_json on the texts above.
json_loads(s) ==
    CASE s = "{\"name\": \"Alice\"}" -> [ok |-> TRUE, dict |-> DictOf(JStr("Alice"))]
      [] OTHER -> [ok |-> FALSE, dict |-> EmptyDict]

----------------------------------------------------------------------------
(* Values and exceptions                                                    *)

Value(tag, arg) == [tag |-> tag, arg |-> arg]
NoValue == Value("None", "")

Exc(tag, arg) == [tag |-> tag, arg |-> arg]
NoExc == Exc("", "")

----------------------------------------------------------------------------
(* Decorated callables                                                      *)

\* The functions handed to the constructor: the two of the test suite, and a
\* synchronous and an asynchronous one whose bodies raise for one argument.
say_hello == [fn |-> "say_hello", kind |-> "def", doc |-> "A greeting agent"]
say_hello_async ==
    [fn |-> "say_hello_async", kind |-> "async def", doc |-> "An async greeting agent"]
greet_strict == [fn |-> "greet_strict", kind |-> "def", doc |-> "A strict greeting agent"]
greet_strict_async ==
    [fn |-> "greet_strict_async", kind |-> "async def", doc |-> "A strict async agent"]

Functions == <<say_hello, say_hello_async, greet_strict, greet_strict_async>>

\* Two functions whose parameter is not a string: the say_goodbye of the
\* OpenAI tests, which takes a Name, and one that takes a list of Names.
say_goodbye ==
    [fn |-> "say_goodbye", kind |-> "def",
     doc |-> "Use this function to say goodbye to someone"]
say_hello_to_all ==
    [fn |-> "say_hello_to_all", kind |-> "def",
     doc |-> "Use this function to say hello to several people"]

SchemaFunctions == Functions \o <<say_goodbye, say_hello_to_all>>

\* class Name(BaseModel): first_name: str; last_name: str (no docstring).
Name ==
    [title |-> "Name", doc |-> "",
     fields |-> [f \in {"first_name", "last_name"} |->
                    [type |-> "string", required |-> TRUE]]]

\* get_type_hints(func), the return type dropped: the parameters and their
\* types. None of the parameters has a default.
get_type_hints(func) ==
    CASE func.fn = "say_goodbye" ->
            [f \in {"name"} |-> [type |-> "Name", required |-> TRUE]]
      [] func.fn = "say_hello_to_all" ->
            [f \in {"names"} |-> [type |-> "List[Name]", required |-> TRUE]]
      [] OTHER ->
            [f \in {"name"} |-> [type |-> "string", required |-> TRUE]]

\* The body of a decorated function, run on validated keyword arguments:
\* the greeting it returns, or the exception it raises (the strict greeters
\* raise ValueError for Bob).
Body(func, kwargs) ==
    IF func.fn \in {"greet_strict", "greet_strict_async"} /\ kwargs.name = "Bob"
    THEN [kind |-> "raise", value |-> NoValue, exc |-> Exc("ValueError", kwargs.name)]
    ELSE [kind |-> "return", value |-> Value("Hello", kwargs.name), exc |-> NoExc]

\* create_model(fn_name, __doc__=fn_description, **hints): one field per hint.
create_model(fn_name, doc, hints) == [title |-> fn_name, doc |-> doc, fields |-> hints]

\* inspect.iscoroutinefunction(func), with every function taken as synchronous.
iscoroutinefunction_never(func) == FALSE

\* inspect.iscoroutinefunction(func)
iscoroutinefunction(func) == func.kind = "async def"

\* add_agent_metadata(func) of @agent(name=name): the function with its
\* AgentMetadata attached, the description taken from the docstring.
add_agent_metadata(name, func) ==
    [func |-> func,
     metadata |-> [name |-> name,
                   description |-> func.doc,
                   model |-> create_model(name, func.doc, get_type_hints(func)),
                   is_async |-> iscoroutinefunction(func)]]

\* @agent(): the name defaults to the function's own.
agent(func) == add_agent_metadata(func.fn, func)

agent_metadata(fn) == fn.metadata

\* AgentCollection.__init__: the name-indexed (metadata, callable) pairs.
Registry(fns) ==
    [n \in {agent_metadata(agent(fns[i])).name : i \in DOMAIN fns} |->
        LET i == CHOOSE j \in DOMAIN fns :
                    /\ agent_metadata(agent(fns[j])).name = n
                    /\ \A k \in DOMAIN fns :
                          agent_metadata(agent(fns[k])).name = n => k <= j
        IN [metadata |-> agent_metadata(agent(fns[i])), agent |-> agent(fns[i])]]

----------------------------------------------------------------------------
(* Validated dispatch                                                       *)

NoKwargs == [name |-> ""]

\* BaseModel.model_validate: every required field present and of its type.
model_validate(model, obj) ==
    IF \A f \in DOMAIN model.fields :
          /\ model.fields[f].required => f \in DOMAIN obj
          /\ f \in DOMAIN obj => obj[f].type = model.fields[f].type
    THEN [ok |-> TRUE, kwargs |-> [f \in DOMAIN model.fields |-> obj[f].v]]
    ELSE [ok |-> FALSE, kwargs |-> NoKwargs]

\* BaseModel.model_validate_json: decode, then validate.
model_validate_json(model, text) ==
    IF json_loads(text).ok
    THEN model_validate(model, json_loads(text).dict)
    ELSE [ok |-> FALSE, kwargs |-> NoKwargs]

\* fn(**params) inside a try block that drops whatever the body raises.
apply_swallowing(fn, kwargs) ==
    IF fn.func.kind = "async def"
    THEN [kind |-> "coroutine", value |-> Value("coroutine", fn.func.fn), exc |-> NoExc]
    ELSE IF Body(fn.func, kwargs).kind = "raise"
         THEN [kind |-> "return", value |-> NoValue, exc |-> NoExc]
         ELSE Body(fn.func, kwargs)

\* fn(**params): a plain function runs its body; a coroutine function hands
\* back a coroutine object whose body has not started.
Apply(fn, kwargs) ==
    IF fn.func.kind = "async def"
    THEN [kind |-> "coroutine", value |-> Value("coroutine", fn.func.fn), exc |-> NoExc]
    ELSE Body(fn.func, kwargs)

\* What one dispatch did: whether the lookup found a registration, whether
\* the payload passed validation, whether the function was called, and what
\* the caller got (a value, an exception, or a coroutine object).
Outcome(looked, validated, invoked, got, kwargs) ==
    [looked |-> looked, validated |-> validated, invoked |-> invoked,
     kind |-> got.kind, value |-> got.value, exc |-> got.exc, kwargs |-> kwargs]

Raise(exc) == [kind |-> "raise", value |-> NoValue, exc |-> exc]

\* call_with_params that hands the raw payload to the function unvalidated.
call_without_validation(fn, params) ==
    LET obj == IF params.form = "str" THEN json_loads(params.text).dict
               ELSE params.dict
        kwargs == [f \in {"name"} |-> IF f \in DOMAIN obj THEN obj[f].v ELSE ""]
    IN Outcome(TRUE, FALSE, TRUE, Apply(fn, kwargs), kwargs)

\* call_with_params(fn, params)
call_with_params(fn, params) ==
    LET metadata == agent_metadata(fn)
        v == IF params.form = "str"
             THEN model_validate_json(metadata.model, params.text)
             ELSE model_validate(metadata.model, params.dict)
    IN IF v.ok
       THEN Outcome(TRUE, TRUE, TRUE, Apply(fn, v.kwargs), v.kwargs)
       ELSE Outcome(TRUE, FALSE, FALSE,
                    Raise(Exc("ValidationError", metadata.name)), NoKwargs)

\* __call__ with a lookup that falls back to some registered agent.
call_with_fallback(reg, name, params) ==
    call_with_params(reg[IF name \in DOMAIN reg THEN name
                         ELSE CHOOSE n \in DOMAIN reg : TRUE].agent, params)

\* AgentCollection.__call__(name, params) on the registry reg.
Call(reg, name, params) ==
    IF name \in DOMAIN reg
    THEN call_with_params(reg[name].agent, params)
    ELSE Outcome(FALSE, FALSE, FALSE, Raise(Exc("KeyError", name)), NoKwargs)

----------------------------------------------------------------------------
(* Tool schemas: JSON Schema documents are functions from keys to values    *)

\* del obj[key]
Del(obj, key) == [k \in DOMAIN obj \ {key} |-> obj[k]]

\* The title pydantic derives from a field name.
FieldTitle(f) ==
    CASE f = "name" -> "Name"
      [] f = "names" -> "Names"
      [] f = "first_name" -> "First Name"
      [] f = "last_name" -> "Last Name"

\* The schema of one field: a nested model is a reference into "$defs", a
\* list of them an array whose items are that reference.
field_schema(f, field) ==
    CASE field.type = "Name" -> [k \in {"$ref"} |-> "#/$defs/Name"]
      [] field.type = "List[Name]" ->
            [items |-> [k \in {"$ref"} |-> "#/$defs/Name"],
             title |-> FieldTitle(f), type |-> "array"]
      [] OTHER -> [title |-> FieldTitle(f), type |-> field.type]

\* The object schema of a model, its docstring as the description.
object_schema(model) ==
    LET base == [properties |-> [f \in DOMAIN model.fields |->
                                    field_schema(f, model.fields[f])],
                 required |-> {f \in DOMAIN model.fields : model.fields[f].required},
                 title |-> model.title,
                 type |-> "object"]
    IN IF model.doc = "" THEN base ELSE ("description" :> model.doc) @@ base

\* BaseModel.model_json_schema(): the nested models sit under "$defs".
model_json_schema(model) ==
    IF \E f \in DOMAIN model.fields : model.fields[f].type \in {"Name", "List[Name]"}
    THEN ("$defs" :> [k \in {"Name"} |-> object_schema(Name)]) @@ object_schema(model)
    ELSE object_schema(model)

\* The definition a JSON pointer into "$defs" names.
pointer(ref) == CASE ref = "#/$defs/Name" -> "Name"

\* jsonref.replace_refs: every {"$ref": ...} object, wherever it sits, is
\* replaced by the document it points to.
RECURSIVE replace_refs_in(_, _)
replace_refs_in(obj, defs) ==
    IF "$ref" \in DOMAIN obj
    THEN replace_refs_in(defs[pointer(obj["$ref"])], defs)
    ELSE [k \in DOMAIN obj |->
            CASE k \in {"properties", "$defs"} ->
                    [f \in DOMAIN obj[k] |-> replace_refs_in(obj[k][f], defs)]
              [] k = "items" -> replace_refs_in(obj[k], defs)
              [] OTHER -> obj[k]]

replace_refs(schema) ==
    replace_refs_in(schema, IF "$defs" \in DOMAIN schema THEN schema["$defs"]
                            ELSE [k \in {} |-> schema])

\* remove_title_recursive(obj): the title of obj goes, and the titles below
\* it as far as "properties" leads.
RECURSIVE remove_title_recursive(_)
remove_title_recursive(obj) ==
    LET o == Del(obj, "title")
    IN IF "properties" \in DOMAIN o
       THEN [o EXCEPT !["properties"] =
                [f \in DOMAIN @ |-> remove_title_recursive(@[f])]]
       ELSE o

\* input_schema(fn)
input_schema(fn) ==
    remove_title_recursive(
        Del(replace_refs(model_json_schema(agent_metadata(fn).model)), "$defs"))

\* set_additional_properties_false(obj) of AgentCollectionOpenAI.tools: the
\* values of "properties" first, then obj itself if its type is "object".
RECURSIVE set_additional_properties_false(_)
set_additional_properties_false(obj) ==
    LET o == IF "properties" \in DOMAIN obj
             THEN [obj EXCEPT !["properties"] =
                      [f \in DOMAIN @ |-> set_additional_properties_false(@[f])]]
             ELSE obj
    IN IF "type" \in DOMAIN o /\ o["type"] = "object"
       THEN ("additionalProperties" :> FALSE) @@ o
       ELSE o

\* self._agents.values() follows the order the constructor inserted the keys.
keys(reg) ==
    SelectSeq([i \in DOMAIN SchemaFunctions |-> SchemaFunctions[i].fn],
              LAMBDA n : n \in DOMAIN reg)

\* AgentCollectionOpenAI.tools(strict)
tools(reg, strict) ==
    [i \in DOMAIN keys(reg) |->
        LET entry == reg[keys(reg)[i]]
            schema == Del(input_schema(entry.agent), "description")
        IN [type |-> "function",
            function |-> [name |-> entry.metadata.name,
                          description |-> entry.metadata.description,
                          strict |-> strict,
                          parameters |-> IF strict
                                         THEN set_additional_properties_false(schema)
                                         ELSE schema]]]

\* AgentCollectionAnthropic.tools()
tools_anthropic(reg) ==
    [i \in DOMAIN keys(reg) |->
        LET entry == reg[keys(reg)[i]]
        IN [name |-> entry.metadata.name,
            description |-> entry.metadata.description,
            input_schema |-> Del(input_schema(entry.agent), "description")]]

----------------------------------------------------------------------------
(* Provider requests                                                        *)

ToolNames == {"say_hello", "say_hello_async", "greet_strict", "greet_strict_async",
              "unknown_name"}

\* A provider's tool call: its correlation id, the tool name, the payload.
ToolCall(id, name, arguments) == [id |-> id, name |-> name, arguments |-> arguments]

\* extract_parameters of the Anthropic and OpenAI adapters.
extract_parameters(inp) ==
    [name |-> inp.name, arguments |-> inp.arguments,
     extras |-> [tool_call_id |-> inp.id]]

FunctionOutputPayload(result, extras) == [result |-> result, extras |-> extras]

\* The batches a provider response can hold: the i-th call carries id i.
Batches ==
    UNION {{[i \in 1..n |-> ToolCall(i, q[i][1], q[i][2])] :
              q \in [1..n -> ToolNames \X RawParameters]} : n \in 0..MaxBatch}

\* The loop argument of invoke_fn: absent, a loop that is not running, or a
\* loop that is running in the calling thread (the caller sits in one of its
\* callbacks). A loop running in another thread is not among the inputs.
Loops == {"None", "stopped", "running"}

----------------------------------------------------------------------------
(* State                                                                    *)

VARIABLES
    agents,     \* self._agents
    op,         \* the entry point in progress: "call", "invoke_fn_async", "invoke_fn"
    pc,         \* its position
    call,       \* the arguments of __call__
    ret,        \* what __call__ did and gave back
    functions,  \* the arguments of invoke_fn_async / invoke_fn
    loop,       \* the loop argument of invoke_fn
    new_loop,   \* the event loop invoke_fn created: "none", "open", "closed"
    tasks,      \* lambdas, and the tasks gather makes of them
    outer,      \* the future gather returns
    completed,  \* the tasks in the order they finished
    outcome,    \* what the caller of invoke_fn_async / invoke_fn observes
    listed,     \* the list tools() returned to its caller
    published   \* per tool, the model behind the schema of the list last
                \* returned by tools(), once the provider was sent that list

vars == <<agents, op, pc, call, ret, functions, loop, new_loop, tasks, outer,
          completed, outcome, listed, published>>

NoCall == [name |-> "", params |-> RawDict(EmptyDict)]
NoRet == Outcome(FALSE, FALSE, FALSE, [kind |-> "none", value |-> NoValue, exc |-> NoExc],
                 NoKwargs)
NoMapping == [n \in {} |-> FunctionOutputPayload(NoValue, [tool_call_id |-> 0])]
NoOutcome == [kind |-> "none", value |-> NoMapping, exc |-> NoExc]
Pending == [state |-> "pending", exc |-> NoExc]
NoTools == <<>>
NoPublished == [n \in {} |-> create_model("", "", get_type_hints(say_hello))]

Finished(t) == t.state \in {"returned", "raised", "cancelled"}

\* No task of an earlier batch is still on the caller's loop.
Quiescent == \A i \in DOMAIN tasks : tasks[i].state \notin {"scheduled", "suspended"}

Init ==
    /\ agents = Registry(Functions)
    /\ op = "none"
    /\ pc = "idle"
    /\ call = NoCall
    /\ ret = NoRet
    /\ functions = <<>>
    /\ loop = "None"
    /\ new_loop = "none"
    /\ tasks = <<>>
    /\ outer = Pending
    /\ completed = <<>>
    /\ outcome = NoOutcome
    /\ listed = NoTools
    /\ published = NoPublished

\* The state every entry point starts from.
Fresh ==
    /\ pc = "idle"
    /\ tasks' = <<>>
    /\ outer' = Pending
    /\ completed' = <<>>
    /\ listed' = NoTools
    /\ UNCHANGED <<agents, published>>

----------------------------------------------------------------------------
(* AgentCollection.__call__                                                 *)

CallSync(name, params) ==
    /\ Fresh
    /\ op' = "call"
    /\ pc' = "done"
    /\ call' = [name |-> name, params |-> params]
    /\ ret' = Call(agents, name, params)
    /\ functions' = <<>>
    /\ loop' = "None"
    /\ new_loop' = "none"
    /\ outcome' = NoOutcome

----------------------------------------------------------------------------
(* tools()                                                                  *)

\* coll.tools(strict) of the OpenAI adapter: the caller gets the list, which
\* takes the place of any list sent to the provider before.
Tools(strict) ==
    /\ pc = "idle"
    /\ op' = "tools"
    /\ pc' = "done"
    /\ listed' = tools(agents, strict)
    /\ published' = NoPublished
    /\ UNCHANGED <<agents, call, ret, functions, loop, new_loop, tasks, outer, completed,
                   outcome>>

\* coll.tools() of the Anthropic adapter.
ToolsAnthropic ==
    /\ pc = "idle"
    /\ op' = "tools_anthropic"
    /\ pc' = "done"
    /\ listed' = tools_anthropic(agents)
    /\ published' = NoPublished
    /\ UNCHANGED <<agents, call, ret, functions, loop, new_loop, tasks, outer, completed,
                   outcome>>

----------------------------------------------------------------------------
(* invoke_fn_async and invoke_fn: entry                                     *)

is_running(l) == l = "running"

\* _use_or_replace_loop(current_loop): "new" stands for asyncio.new_event_loop().
use_or_replace_loop(current_loop) ==
    IF current_loop = "None" \/ ~is_running(current_loop) THEN "new" ELSE current_loop

\* await coll.invoke_fn_async(*fs) on the caller's own running loop.
InvokeFnAsync(fs) ==
    /\ Fresh
    /\ op' = "invoke_fn_async"
    /\ pc' = "start"
    /\ functions' = fs
    /\ loop' = "None"
    /\ new_loop' = "none"
    /\ call' = NoCall
    /\ ret' = NoRet
    /\ outcome' = NoOutcome

\* coll.invoke_fn(*fs, loop=l): asyncio.Runner asks the loop factory for its
\* loop on entry. Runner.run refuses to run inside a running loop
\* (RuntimeError), and Runner.close cannot close that loop (RuntimeError
\* again), so the coroutine of invoke_fn_async is never started on a reused
\* loop and invoke_fn raises; a loop made by the factory runs the batch.
InvokeFn(fs, l) ==
    /\ Fresh
    /\ op' = "invoke_fn"
    /\ functions' = fs
    /\ loop' = l
    /\ call' = NoCall
    /\ ret' = NoRet
    /\ IF use_or_replace_loop(l) = "new"
       THEN /\ new_loop' = "open"
            /\ pc' = "start"
            /\ outcome' = NoOutcome
       ELSE /\ new_loop' = "none"
            /\ pc' = "done"
            /\ outcome' = [kind |-> "raise", value |-> NoMapping,
                           exc |-> Exc("RuntimeError", "loop is running")]

----------------------------------------------------------------------------
(* invoke_fn_async: the body                                                *)

\* The exception leaves invoke_fn_async; under invoke_fn the runner closes next.
Fail(exc) ==
    /\ outcome' = [kind |-> "raise", value |-> NoMapping, exc |-> exc]
    /\ pc' = IF op = "invoke_fn" THEN "close" ELSE "done"

\* assert len(functions) > 0
Start ==
    /\ pc = "start"
    /\ IF Len(functions) > 0
       THEN pc' = "extract" /\ UNCHANGED outcome
       ELSE Fail(Exc("AssertionError", "At least one function must be provided"))
    /\ UNCHANGED <<agents, listed, published, op, call, ret, functions, loop, new_loop, tasks, outer,
                   completed>>

\* A coroutine built without its _extras argument: the payload it returns
\* carries the default extras of no request.
coroutine_without_extras(params, is_async) ==
    [name |-> params.name, arguments |-> params.arguments, extras |-> [tool_call_id |-> 0],
     is_async |-> is_async, state |-> "coroutine",
     looked |-> FALSE, validated |-> FALSE, invoked |-> FALSE,
     value |-> NoValue, exc |-> NoExc, kwargs |-> NoKwargs]

\* run_as_async(...) / run(...): a coroutine object, not yet started.
Coroutine(params, is_async) ==
    [name |-> params.name, arguments |-> params.arguments, extras |-> params.extras,
     is_async |-> is_async, state |-> "coroutine",
     looked |-> FALSE, validated |-> FALSE, invoked |-> FALSE,
     value |-> NoValue, exc |-> NoExc, kwargs |-> NoKwargs]

\* One turn of the loop with the lookup written self._agents.pop(params.name):
\* the registration is taken out of the registry.
extract_popping ==
    /\ pc = "extract"
    /\ Len(tasks) < Len(functions)
    /\ LET params == extract_parameters(functions[Len(tasks) + 1])
       IN IF params.name \in DOMAIN agents
          THEN /\ tasks' = Append(tasks,
                     Coroutine(params, agents[params.name].metadata.is_async))
               /\ agents' = [n \in DOMAIN agents \ {params.name} |-> agents[n]]
               /\ UNCHANGED <<pc, outcome>>
          ELSE /\ Fail(Exc("KeyError", params.name))
               /\ UNCHANGED <<tasks, agents>>
    /\ UNCHANGED <<listed, published, op, call, ret, functions, loop, new_loop, outer,
                   completed>>

\* One turn of the loop that leaves the lookup to the coroutine: a request
\* of an unknown name becomes a coroutine like any other.
extract_without_lookup ==
    /\ pc = "extract"
    /\ Len(tasks) < Len(functions)
    /\ LET params == extract_parameters(functions[Len(tasks) + 1])
       IN tasks' = Append(tasks,
                     Coroutine(params, /\ params.name \in DOMAIN agents
                                       /\ agents[params.name].metadata.is_async))
    /\ UNCHANGED <<agents, listed, published, op, pc, call, ret, functions, loop, new_loop,
                   outer, completed, outcome>>

\* One turn of "for function in functions": extract, look the metadata up,
\* append the coroutine. An unknown name raises KeyError out of the loop.
Extract ==
    /\ pc = "extract"
    /\ Len(tasks) < Len(functions)
    /\ LET params == extract_parameters(functions[Len(tasks) + 1])
       IN IF params.name \in DOMAIN agents
          THEN /\ tasks' = Append(tasks,
                     Coroutine(params, agents[params.name].metadata.is_async))
               /\ UNCHANGED <<pc, outcome>>
          ELSE /\ Fail(Exc("KeyError", params.name))
               /\ UNCHANGED tasks
    /\ UNCHANGED <<agents, listed, published, op, call, ret, functions, loop, new_loop, outer, completed>>

\* A gather that makes a task of its first argument only.
ensure_first_only(ts) ==
    [i \in DOMAIN ts |-> IF i = 1 THEN [ts[i] EXCEPT !.state = "scheduled"] ELSE ts[i]]

\* asyncio.gather(*lambdas): every coroutine becomes a task scheduled on the
\* loop, in argument order, before gather returns its future.
ensure_futures(ts) == [i \in DOMAIN ts |-> [ts[i] EXCEPT !.state = "scheduled"]]

\* The future of gather: it takes the first exception of a child when that
\* child finishes, and the results once every child has returned.
outer_after(o, ts, i) ==
    IF o.state # "pending" THEN o
    ELSE IF ts[i].state = "raised" THEN [state |-> "exception", exc |-> ts[i].exc]
    ELSE IF \A j \in DOMAIN ts : ts[j].state = "returned"
         THEN [state |-> "result", exc |-> NoExc]
    ELSE o

Gather ==
    /\ pc = "extract"
    /\ Len(tasks) = Len(functions)
    /\ tasks' = ensure_futures(tasks)
    /\ outer' = IF Len(tasks) = 0 THEN [state |-> "result", exc |-> NoExc] ELSE outer
    /\ pc' = "await"
    /\ UNCHANGED <<agents, listed, published, op, call, ret, functions, loop, new_loop, completed, outcome>>

----------------------------------------------------------------------------
(* The tasks on the event loop                                              *)

\* gather in the manner of a task group: a child's exception cancels the
\* children that have not finished.
siblings_cancelled(ts, i) ==
    [j \in DOMAIN ts |->
        IF j # i /\ ts[i].state = "raised" /\ ~Finished(ts[j])
        THEN [ts[j] EXCEPT !.state = "cancelled"] ELSE ts[j]]

\* asyncio.gather without return_exceptions: when child i finishes, raising
\* or not, the other children are left as they are.
siblings_after(ts, i) == ts

\* A first step that hands a synchronous function to a worker thread
\* (await loop.run_in_executor(...)): the task waits for the thread while
\* the loop runs the other tasks.
first_step_offloading(reg, t) ==
    LET r == Call(reg, t.name, t.arguments)
        seen == [t EXCEPT !.looked = r.looked, !.validated = r.validated,
                          !.invoked = r.invoked, !.kwargs = r.kwargs]
    IN IF ~r.invoked
       THEN [seen EXCEPT !.state = "raised", !.exc = r.exc]
       ELSE [seen EXCEPT !.state = "suspended"]

\* The first step of task i, the first of the scheduled tasks in the loop's
\* FIFO ready queue: self(_name, _params), then, in run, the await of what it
\* gave back, up to the first suspension of the body.
first_step(reg, t) ==
    LET r == Call(reg, t.name, t.arguments)
        seen == [t EXCEPT !.looked = r.looked, !.validated = r.validated,
                          !.invoked = r.invoked, !.kwargs = r.kwargs]
    IN IF r.kind = "raise"
       THEN [seen EXCEPT !.state = "raised", !.exc = r.exc]
       ELSE IF ~t.is_async
            THEN [seen EXCEPT !.state = "returned", !.value = r.value]
            ELSE IF r.kind = "coroutine"
                 THEN [seen EXCEPT !.state = "suspended"]
                 ELSE [seen EXCEPT !.state = "raised",
                                   !.exc = Exc("TypeError", "object can't be awaited")]

Step(i) ==
    /\ pc = "await"
    /\ i \in DOMAIN tasks
    /\ tasks[i].state = "scheduled"
    /\ \A j \in 1..(i - 1) : tasks[j].state # "scheduled"
    /\ LET ts == [tasks EXCEPT ![i] = first_step(agents, tasks[i])]
       IN /\ tasks' = IF Finished(ts[i]) THEN siblings_after(ts, i) ELSE ts
          /\ outer' = IF Finished(ts[i]) THEN outer_after(outer, ts, i) ELSE outer
          /\ completed' = IF Finished(ts[i]) THEN Append(completed, i) ELSE completed
    /\ UNCHANGED <<agents, listed, published, op, pc, call, ret, functions, loop, new_loop, outcome>>

\* The body of a suspended coroutine function resumes after its sleep and
\* runs to its end.
resume(reg, t) ==
    LET b == Body(reg[t.name].agent.func, t.kwargs)
    IN IF b.kind = "raise"
       THEN [t EXCEPT !.state = "raised", !.exc = b.exc]
       ELSE [t EXCEPT !.state = "returned", !.value = b.value]

\* Timers fire once the ready queue of first steps is drained; under
\* invoke_fn_async the caller's loop keeps running after the batch has
\* raised, so a task left behind still resumes.
Resume(i) ==
    /\ \/ pc = "await"
       \/ pc = "done" /\ op = "invoke_fn_async"
    /\ i \in DOMAIN tasks
    /\ tasks[i].state = "suspended"
    /\ \A j \in DOMAIN tasks : tasks[j].state # "scheduled"
    /\ LET ts == [tasks EXCEPT ![i] = resume(agents, tasks[i])]
       IN /\ tasks' = siblings_after(ts, i)
          /\ outer' = outer_after(outer, ts, i)
    /\ completed' = Append(completed, i)
    /\ UNCHANGED <<agents, listed, published, op, pc, call, ret, functions, loop, new_loop, outcome>>

----------------------------------------------------------------------------
(* Collecting the results                                                   *)

\* The pair a coroutine returns, with the name read from the loop variable
\* when the coroutine finishes rather than from its own argument.
result_of_loop_variable(ts, i) ==
    <<ts[Len(ts)].name, FunctionOutputPayload(ts[i].value, ts[i].extras)>>

\* return _name, FunctionOutputPayload(result=..., extras=_extras)
result_of(ts, i) == <<ts[i].name, FunctionOutputPayload(ts[i].value, ts[i].extras)>>

\* The results of gather in the order the children finished.
gather_in_completion_order(ts, order) == [k \in DOMAIN order |-> result_of(ts, order[k])]

\* The results of gather: one per awaitable, in the order they were passed.
gather_results(ts, order) == [i \in DOMAIN ts |-> result_of(ts, i)]

\* dict(pairs): a later pair replaces an earlier pair of the same key.
dict(pairs) ==
    [n \in {pairs[i][1] : i \in DOMAIN pairs} |->
        LET last == CHOOSE i \in DOMAIN pairs :
                        /\ pairs[i][1] = n
                        /\ \A j \in DOMAIN pairs : pairs[j][1] = n => j <= i
        IN pairs[last][2]]

\* invoke_fn_async resumes from "await asyncio.gather(...)": with the results,
\* or with the first exception of a child.
Wake ==
    /\ pc = "await"
    /\ outer.state # "pending"
    /\ \A j \in DOMAIN tasks : tasks[j].state # "scheduled"
    /\ IF outer.state = "result"
       THEN /\ outcome' = [kind |-> "return",
                           value |-> dict(gather_results(tasks, completed)),
                           exc |-> NoExc]
            /\ pc' = IF op = "invoke_fn" THEN "close" ELSE "done"
       ELSE Fail(outer.exc)
    /\ UNCHANGED <<agents, listed, published, op, call, ret, functions, loop, new_loop, tasks, outer,
                   completed>>

----------------------------------------------------------------------------
(* invoke_fn: leaving the runner                                            *)

\* Runner.close on leaving the with block: the tasks of the loop that have
\* not finished are cancelled, then the loop is closed.
runner_close(ts) ==
    [loop |-> "closed",
     tasks |-> [i \in DOMAIN ts |->
                  IF ts[i].state \in {"scheduled", "suspended"}
                  THEN [ts[i] EXCEPT !.state = "cancelled"] ELSE ts[i]]]

Close ==
    /\ pc = "close"
    /\ new_loop' = runner_close(tasks).loop
    /\ tasks' = runner_close(tasks).tasks
    /\ pc' = "done"
    /\ UNCHANGED <<agents, listed, published, op, call, ret, functions, loop, outer, completed, outcome>>

----------------------------------------------------------------------------

\* The caller has its result or its exception and drops it; the collection
\* is ready for the next call once no task of the batch is left on the loop.
Return ==
    /\ pc = "done"
    /\ Quiescent
    /\ op' = "none"
    /\ pc' = "idle"
    /\ call' = NoCall
    /\ ret' = NoRet
    /\ functions' = <<>>
    /\ loop' = "None"
    /\ new_loop' = "none"
    /\ tasks' = <<>>
    /\ outer' = Pending
    /\ completed' = <<>>
    /\ outcome' = NoOutcome
    /\ listed' = NoTools
    /\ UNCHANGED <<agents, published>>

\* The caller's next call, with any of the inputs above.
EnterCall ==
    pc = "idle" /\ \E name \in ToolNames, params \in RawParameters : CallSync(name, params)

EnterInvokeFnAsync == pc = "idle" /\ \E fs \in Batches : InvokeFnAsync(fs)

EnterInvokeFn == pc = "idle" /\ \E fs \in Batches, l \in Loops : InvokeFn(fs, l)

EnterTools == \E strict \in BOOLEAN : Tools(strict)

Next ==
    \/ EnterCall
    \/ EnterInvokeFnAsync
    \/ EnterInvokeFn
    \/ EnterTools
    \/ ToolsAnthropic
    \/ Start
    \/ Extract
    \/ Gather
    \/ \E i \in 1..(MaxBatch + 1) : Step(i)
    \/ \E i \in 1..(MaxBatch + 1) : Resume(i)
    \/ Wake
    \/ Close
    \/ Return

Spec == Init /\ [][Next]_vars

----------------------------------------------------------------------------
(* Schemas and dispatch over the life of a collection                       *)

\* The names a registered function is decorated again with.
DecoratorNames == {"greeting"}

\* agent(name=name)(fn) on the function registered under n: the decorator
\* attaches new metadata, with a new model, to the function object the
\* registry refers to; the metadata stored in the registry stays.
Decorate(n, name) ==
    /\ pc = "idle"
    /\ n \in DOMAIN agents
    /\ agents' = [agents EXCEPT ![n].agent = add_agent_metadata(name, @.func)]
    /\ UNCHANGED <<op, pc, call, ret, functions, loop, new_loop, tasks, outer, completed,
                   outcome, listed, published>>

\* The caller sends the list it got from tools() to the provider: the
\* schema of each tool was generated from the model its function carried.
Publish ==
    /\ pc = "done"
    /\ op \in {"tools", "tools_anthropic"}
    /\ published' = [n \in DOMAIN agents |-> agent_metadata(agents[n].agent).model]
    /\ UNCHANGED <<agents, op, pc, call, ret, functions, loop, new_loop, tasks, outer,
                   completed, outcome, listed>>

\* A collection of all six functions.
InitSchema ==
    /\ agents = Registry(SchemaFunctions)
    /\ op = "none"
    /\ pc = "idle"
    /\ call = NoCall
    /\ ret = NoRet
    /\ functions = <<>>
    /\ loop = "None"
    /\ new_loop = "none"
    /\ tasks = <<>>
    /\ outer = Pending
    /\ completed = <<>>
    /\ outcome = NoOutcome
    /\ listed = NoTools
    /\ published = NoPublished

NextSchema ==
    \/ \E n \in DOMAIN agents, name \in DecoratorNames : Decorate(n, name)
    \/ EnterTools
    \/ ToolsAnthropic
    \/ Publish
    \/ EnterCall
    \/ Return

SpecSchema == InitSchema /\ [][NextSchema]_vars

----------------------------------------------------------------------------
(* What the inputs call for, stated on the inputs alone                     *)

\* The spec's names for the exceptions the code raises.
EmptyBatchError == "AssertionError"
UnknownToolError == "KeyError"

Batch == op \in {"invoke_fn_async", "invoke_fn"}

Requested == {functions[i].name : i \in DOMAIN functions}

\* The payload carries a string under "name", as a dict or as JSON text.
ValidRaw(p) ==
    IF p.form = "str"
    THEN p.text = "{\"name\": \"Alice\"}"
    ELSE "name" \in DOMAIN p.dict /\ p.dict["name"].type = "string"

\* The name a valid payload greets.
Greeted(p) == IF p.form = "str" THEN "Alice" ELSE p.dict["name"].v

\* The strict greeters refuse Bob.
Refuses(name, p) == name \in {"greet_strict", "greet_strict_async"} /\ Greeted(p) = "Bob"

\* Every request names a registered tool, validates, and its function returns.
BatchOk ==
    \A i \in DOMAIN functions :
        /\ functions[i].name \in DOMAIN agents
        /\ ValidRaw(functions[i].arguments)
        /\ ~Refuses(functions[i].name, functions[i].arguments)

DistinctNames ==
    \A i, j \in DOMAIN functions : functions[i].name = functions[j].name => i = j

----------------------------------------------------------------------------
(* Claims                                                                   *)

\* C1: whenever a non-empty batch returns a mapping, the keys of the mapping
\* are exactly the tool names requested (duplicates collapsed), in whatever
\* order the invocations finished; and a batch of registered tools with
\* valid payloads whose functions all return does return a mapping, once
\* invoke_fn_async has run to its end.
C1_KeySetEqualsRequested ==
    /\ (Batch /\ outcome.kind = "return" /\ Len(functions) > 0)
          => DOMAIN outcome.value = Requested
    /\ (Batch /\ outcome.kind = "raise" /\ outcome.exc.tag # "RuntimeError")
          => ~(BatchOk /\ Len(functions) > 0)

\* C1 witness: two tools of different names, the second finished first, and
\* the mapping is returned.
C1_Witness ==
    /\ op = "invoke_fn"
    /\ outcome.kind = "return"
    /\ Len(functions) = 2
    /\ functions[1].name # functions[2].name
    /\ completed = <<2, 1>>

\* C2: in a returned mapping of a batch of distinct names, every requested
\* name maps to the greeting its own function returns for its own payload:
\* the awaited value, never a coroutine object, never another request's.
C2_OwnFinalResult ==
    (Batch /\ outcome.kind = "return" /\ DistinctNames) =>
        \A i \in DOMAIN functions :
            /\ functions[i].name \in DOMAIN outcome.value
            /\ outcome.value[functions[i].name].result
                  = Value("Hello", Greeted(functions[i].arguments))

\* C2 witness: an asynchronous and a synchronous tool with different
\* payloads; the synchronous one, submitted second, finished first.
C2_Witness ==
    /\ op = "invoke_fn"
    /\ outcome.kind = "return"
    /\ Len(functions) = 2
    /\ functions[1].name = "say_hello_async"
    /\ functions[2].name = "say_hello"
    /\ Greeted(functions[1].arguments) # Greeted(functions[2].arguments)
    /\ completed = <<2, 1>>

\* C3: once any invocation of the batch has started, suspended or finished,
\* every request of the batch has been made a task on the loop.
C3_AllSubmittedFirst ==
    (\E i \in DOMAIN tasks : tasks[i].state \notin {"coroutine", "scheduled"}) =>
        /\ Len(tasks) = Len(functions)
        /\ \A j \in DOMAIN tasks : tasks[j].state # "coroutine"

\* C3 witness: the first invocation is suspended in its body while the second
\* is a task that has not started.
C3_Witness ==
    /\ pc = "await"
    /\ Len(tasks) = 2
    /\ tasks[1].state = "suspended"
    /\ tasks[2].state = "scheduled"

\* C4 as claimed: no invocation is ever cancelled while a sibling of its
\* batch has raised, under invoke_fn_async and under invoke_fn alike.
C4_NoSiblingCancelled ==
    \A i, j \in DOMAIN tasks :
        (i # j /\ tasks[j].state = "raised") => tasks[i].state # "cancelled"

\* C4 amended: under invoke_fn_async on the caller's loop no invocation is
\* ever cancelled, and one that is suspended stays on the loop, where it can
\* resume, after a sibling's exception has reached the caller. Under
\* invoke_fn an invocation is cancelled only by the runner closing its loop,
\* after a sibling's exception has left invoke_fn_async.
C4_CancelledOnlyByRunnerClose ==
    \A i \in DOMAIN tasks :
        /\ op = "invoke_fn_async" =>
              /\ tasks[i].state # "cancelled"
              /\ tasks[i].state = "suspended" => pc \in {"await", "done"}
        /\ tasks[i].state = "cancelled" =>
              /\ op = "invoke_fn"
              /\ pc = "done"
              /\ new_loop = "closed"
              /\ outcome.kind = "raise"
              /\ \E j \in DOMAIN tasks : j # i /\ tasks[j].state = "raised"

\* C4 witness: under invoke_fn_async the first invocation raised, the caller
\* has the exception, and the asynchronous sibling then ran to its return.
C4_Witness ==
    /\ op = "invoke_fn_async"
    /\ pc = "done"
    /\ outcome.kind = "raise"
    /\ Len(tasks) = 2
    /\ tasks[1].state = "raised"
    /\ tasks[1].exc.tag = "ValueError"
    /\ tasks[2].is_async
    /\ tasks[2].state = "returned"
    /\ completed = <<1, 2>>

\* C5: a function is called only for a request whose name is registered and
\* whose payload is valid, after the lookup and the validation succeeded; a
\* request that fails either raises and never calls its function. This holds
\* of __call__ and of every invocation of a batch.
C5_ValidatedBeforeInvoked ==
    /\ op = "call" =>
          /\ ret.invoked =>
                /\ ret.looked /\ ret.validated
                /\ call.name \in DOMAIN agents /\ ValidRaw(call.params)
          /\ (call.name \notin DOMAIN agents \/ ~ValidRaw(call.params)) =>
                ret.kind = "raise" /\ ~ret.invoked
    /\ \A i \in DOMAIN tasks :
          /\ tasks[i].invoked =>
                /\ tasks[i].looked /\ tasks[i].validated
                /\ tasks[i].name \in DOMAIN agents /\ ValidRaw(tasks[i].arguments)
          /\ (tasks[i].state \notin {"coroutine", "scheduled"}
                /\ ~ValidRaw(tasks[i].arguments)) =>
                tasks[i].state = "raised" /\ ~tasks[i].invoked

\* C5 witness: in one batch a request with an invalid payload has raised the
\* validation error without calling its function, and its sibling was called.
C5_Witness ==
    /\ Len(tasks) = 2
    /\ ~ValidRaw(tasks[1].arguments)
    /\ tasks[1].state = "raised"
    /\ tasks[1].exc.tag = "ValidationError"
    /\ ~tasks[1].invoked
    /\ tasks[2].invoked

\* C6 as claimed: invoke_fn_async and invoke_fn with zero requests end with
\* the empty-batch error, and no function has been called.
C6_EmptyBatchFails ==
    (Batch /\ Len(functions) = 0 /\ pc = "done") =>
        /\ outcome.kind = "raise"
        /\ outcome.exc.tag = EmptyBatchError
        /\ tasks = <<>>

\* C6 on the paths where the coroutine of invoke_fn_async is run: the
\* assertion fails before any coroutine is built.
C6_EmptyBatchFailsOnceStarted ==
    (Batch /\ Len(functions) = 0 /\ pc \in {"close", "done"}
       /\ use_or_replace_loop(loop) = "new") =>
        /\ outcome.kind = "raise"
        /\ outcome.exc.tag = EmptyBatchError
        /\ tasks = <<>>

\* C7: __call__ with a name that is not registered raises the unknown-tool
\* error (KeyError), whatever the payload, and calls no function.
C7_UnknownToolFails ==
    (op = "call" /\ call.name \notin {"say_hello", "say_hello_async", "greet_strict",
                                      "greet_strict_async"}) =>
        /\ ret.kind = "raise"
        /\ ret.exc = Exc(UnknownToolError, call.name)
        /\ ~ret.invoked

\* C7 witness: an unknown name with a payload that would have validated.
C7_Witness ==
    /\ op = "call"
    /\ call.name = "unknown_name"
    /\ ValidRaw(call.params)
    /\ ret.exc.tag = UnknownToolError

C9_LoopReusedOrOwned ==
    (op = "invoke_fn" /\ pc = "done") =>
        IF loop = "running"
        THEN /\ new_loop = "none"
             /\ (BatchOk /\ Len(functions) > 0) => outcome.kind = "return"
        ELSE new_loop = "closed"

\* C10: in a returned mapping, the entry of a name requested more than once
\* is the payload of the last request of that name in submission order: its
\* own greeting and its own correlation id, in whatever order they finished.
C10_LaterRequestWins ==
    (Batch /\ outcome.kind = "return") =>
        \A i \in DOMAIN functions :
            (\A j \in DOMAIN functions : functions[j].name = functions[i].name => j <= i)
            => outcome.value[functions[i].name]
                  = FunctionOutputPayload(Value("Hello", Greeted(functions[i].arguments)),
                                          [tool_call_id |-> functions[i].id])

\* C10 witness: two requests of one asynchronous tool with different
\* payloads, the later one finished first.
C10_Witness ==
    /\ Batch
    /\ outcome.kind = "return"
    /\ Len(functions) = 2
    /\ functions[1].name = functions[2].name
    /\ Greeted(functions[1].arguments) # Greeted(functions[2].arguments)
    /\ completed = <<2, 1>>

RECURSIVE Nodes(_)
Nodes(obj) ==
    {obj}
    \cup (IF "properties" \in DOMAIN obj
          THEN UNION {Nodes(obj["properties"][f]) : f \in DOMAIN obj["properties"]}
          ELSE {})
    \cup (IF "items" \in DOMAIN obj THEN Nodes(obj["items"]) ELSE {})

\* C12: in the list tools(strict=True) of the OpenAI adapter returns, every
\* object-typed node of every schema, at any depth and also below the items
\* of an array, has additionalProperties false; in the list of
\* tools(strict=False) no node has the key additionalProperties.
C12_StrictClosesEveryObject ==
    (op = "tools" /\ pc = "done") =>
        \A i \in DOMAIN listed :
            \A node \in Nodes(listed[i].function.parameters) :
                IF listed[i].function.strict
                THEN ("type" \in DOMAIN node /\ node["type"] = "object")
                        => /\ "additionalProperties" \in DOMAIN node
                           /\ node["additionalProperties"] = FALSE
                ELSE "additionalProperties" \notin DOMAIN node

\* C12, as far as the code goes: the objects reached through "properties"
\* alone are closed in strict mode, and none is in non-strict mode.
RECURSIVE PropertyNodes(_)
PropertyNodes(obj) ==
    {obj}
    \cup (IF "properties" \in DOMAIN obj
          THEN UNION {PropertyNodes(obj["properties"][f]) : f \in DOMAIN obj["properties"]}
          ELSE {})

C12_ClosedAlongProperties ==
    (op = "tools" /\ pc = "done") =>
        \A i \in DOMAIN listed :
            \A node \in PropertyNodes(listed[i].function.parameters) :
                IF listed[i].function.strict
                THEN ("type" \in DOMAIN node /\ node["type"] = "object")
                        => /\ "additionalProperties" \in DOMAIN node
                           /\ node["additionalProperties"] = FALSE
                ELSE "additionalProperties" \notin DOMAIN node

\* C13: whatever decorations, tools() calls and dispatches came before, the
\* model that validates the arguments of a dispatched call to a registered
\* tool is the model from which the schema of that tool, as last handed out
\* by tools(), was generated.
C13_ValidatedByPublishedModel ==
    (op = "call" /\ pc = "done" /\ ret.looked /\ call.name \in DOMAIN published) =>
        agent_metadata(agents[call.name].agent).model = published[call.name]

\* C13, as far as the code goes: the two models differ only for a function
\* that was decorated again after the collection was built.
C13_SameModelUnlessDecoratedAgain ==
    (op = "call" /\ pc = "done" /\ ret.looked /\ call.name \in DOMAIN published) =>
        \/ agent_metadata(agents[call.name].agent).model = published[call.name]
        \/ agent_metadata(agents[call.name].agent) # agents[call.name].metadata

\* C14: no step of __call__, tools, extract_parameters, invoke_fn_async or
\* invoke_fn, succeeding or failing, writes the registry: the key set, the
\* metadata stored under each key and the callable stored under each key
\* are after the step what they were before it.
C14_RegistryReadOnly ==
    [][/\ DOMAIN agents' = DOMAIN agents
       /\ \A n \in DOMAIN agents :
             /\ agents'[n].metadata = agents[n].metadata
             /\ agents'[n].agent = agents[n].agent]_vars

\* C14 witness: a batch under invoke_fn that extracted a request, failed on
\* an unknown name and was closed, with the registry as the constructor
\* built it.
C14_Witness ==
    /\ op = "invoke_fn"
    /\ pc = "done"
    /\ Len(tasks) >= 1
    /\ outcome.kind = "raise"
    /\ outcome.exc.tag = "KeyError"
    /\ agents = Registry(Functions)

\* C15: in a batch, the step of the loop that starts a synchronous callable
\* also ends it, and no other task of the batch changes in that step: none
\* starts, resumes, completes or is cancelled between the start and the
\* return of a synchronous callable. A callable that has started and not
\* finished is therefore always an asynchronous one, suspended at its own
\* await.
C15_SyncRunsInOneStep ==
    [][\A i \in DOMAIN tasks' :
          /\ (/\ i \in DOMAIN tasks
              /\ ~tasks'[i].is_async
              /\ tasks'[i].invoked
              /\ ~tasks[i].invoked)
                => /\ Finished(tasks'[i])
                   /\ \A j \in DOMAIN tasks \ {i} : tasks'[j] = tasks[j]
          /\ (tasks'[i].invoked /\ ~Finished(tasks'[i]))
                => /\ tasks'[i].is_async
                   /\ tasks'[i].state = "suspended"]_vars

\* C15 witness: a synchronous callable has run and returned while an
\* asynchronous callable submitted before it is suspended.
C15_Witness ==
    /\ Batch
    /\ pc = "await"
    /\ Len(tasks) = 2
    /\ tasks[1].is_async /\ tasks[1].state = "suspended"
    /\ ~tasks[2].is_async /\ tasks[2].invoked /\ tasks[2].state = "returned"

\* C16: a batch with a request of an unregistered name, at whatever
\* position, fails, and no callable of the batch is ever started: the
\* coroutines built for the requests before it stay unstarted, so the batch
\* has no partial effect.
C16_UnknownNameStartsNothing ==
    (Batch /\ \E i \in DOMAIN functions : functions[i].name \notin DOMAIN agents) =>
        /\ \A k \in DOMAIN tasks : ~tasks[k].invoked /\ tasks[k].state = "coroutine"
        /\ completed = <<>>
        /\ pc = "done" => outcome.kind = "raise"

\* C16 witness: the unknown name is the last request, after a request that
\* would have run; the batch has failed on it under invoke_fn_async.
C16_Witness ==
    /\ op = "invoke_fn_async"
    /\ pc = "done"
    /\ Len(functions) = 2
    /\ functions[1].name \in DOMAIN agents
    /\ ValidRaw(functions[1].arguments)
    /\ functions[2].name \notin DOMAIN agents
    /\ Len(tasks) = 1
    /\ outcome.kind = "raise"
    /\ outcome.exc.tag = UnknownToolError

====
